---- MODULE Spec2Model ----
(***************************************************************************)
(* A model of PoissonDiskDistribution.cpp: the uniform grid (Grid::resize, *)
(* Grid::add, Grid::hasNeighbors) and the three poissonDiskDistribution    *)
(* overloads (constant separation; distFunction; distFunction and          *)
(* boundsFunction).                                                        *)
(*                                                                         *)
(* Floats are modelled in fixed point: a coordinate, a radius or a         *)
(* separation is an integer number of 1/Unit, and arithmetic on them is    *)
(* exact.  A point is a pair <<x, y>> of such numbers.  Integer            *)
(* quantities of the code (ivec2, Area, cell indices) are whole numbers.   *)
(***************************************************************************)
EXTENDS Integers, Sequences, FiniteSets, TLC

\* Resolution of the modelled floats: 1/Unit is the smallest fraction.
Unit == 4

\* Grid grid( Area( bounds ), 3 ): the cell-size exponent.
mK == 3

\* Bounds of the model.
MaxK == 2
MaxInit == 1
MaxOut == 3
MaxAdds == 2
MaxDraws == 3

VARIABLES
    \* the build: what ( uint32_t ) of a negative float yields (undefined in C++)
    build,
    \* the arguments of a call
    variant, separation, distFunction, boundsFunction, bounds, initialSet, k,
    \* the locals of poissonDiskDistribution and the position in its body
    pc, nInit, processingList, outputList, center, dist, i,
    \* Grid::mGrid
    mGrid,
    \* history of one run: the separation that applied when outputList[n] was
    \* accepted (0: an initial or seeded point), the outputList index each
    \* processingList entry was pushed with, and how often each outputList
    \* index has been selected and erased
    acceptDist, procIdx, processed,
    \* the mocked random source and the second run over it
    run, intStream, floatStream, intPos, floatPos, firstK, firstOutput, firstGrid,
    iterDone, iterOut, firstIterOut,
    \* direct use of a Grid: the points added, and the last query's answer
    added, qAsked, qPoint, qRadius, qResult

inputVars == <<build, variant, separation, distFunction, boundsFunction, bounds, initialSet>>
localVars == <<pc, nInit, processingList, outputList, center, dist, i, mGrid>>
histVars  == <<acceptDist, procIdx, processed>>
mockVars  == <<run, intStream, floatStream, intPos, floatPos, firstK, firstOutput, firstGrid,
               iterDone, iterOut, firstIterOut>>
queryVars == <<added, qAsked, qPoint, qRadius, qResult>>
vars == <<inputVars, k, localVars, histVars, mockVars, queryVars>>

----------------------------------------------------------------------------
(* Arithmetic of the code *)

Min(a, b) == IF a < b THEN a ELSE b
Max(a, b) == IF a > b THEN a ELSE b
Abs(a) == IF a < 0 THEN -a ELSE a

\* ( int ) f, ivec2( p ): a float converted to int truncates toward zero.
Trunc(f) == IF f >= 0 THEN f \div Unit ELSE -((-f) \div Unit)

\* glm::ceil( size / (float) mCellSize ) of a whole number a.
CeilDiv(a, b) == -((-a) \div b)

\* glm::length2( p - q ), in 1/Unit^2.
Length2(p, q) == (p[1] - q[1]) * (p[1] - q[1]) + (p[2] - q[2]) * (p[2] - q[2])

\* ( uint32_t ) f of Grid::add.  Defined when the truncated value is not
\* negative; otherwise undefined behaviour, and the build decides: "wrap"
\* (conversion through a wider signed integer, the value modulo 2^32, kept
\* here as the negative number it is congruent to) or "sat" (a saturating
\* conversion instruction: 0).
CastU32(f) ==
    IF Trunc(f) >= 0 THEN Trunc(f)
    ELSE IF build = "wrap" THEN Trunc(f) ELSE 0

\* ( u + mOffset ) >> mK on uint32_t, for u + mOffset = s modulo 2^32 with
\* -2^32 < s < 2^32: a negative s stands for 2^32 + s.
ShiftU32(s) == IF s >= 0 THEN s \div (2 ^ mK) ELSE 2 ^ (32 - mK) + (s \div (2 ^ mK))

\* v >> mK on int.
Shr(v) == v \div (2 ^ mK)

----------------------------------------------------------------------------
(* ci::Rectf and ci::Area *)

\* Area( bounds ): the corners of the Rectf converted to int.  The bounds
\* drawn below have whole corners, which any rounding leaves as they are.
Area(b) == [x1 |-> Trunc(b.x1), y1 |-> Trunc(b.y1), x2 |-> Trunc(b.x2), y2 |-> Trunc(b.y2)]

\* bounds.contains( pt ): both edges included.
Contains(b, pt) == pt[1] >= b.x1 /\ pt[1] <= b.x2 /\ pt[2] >= b.y1 /\ pt[2] <= b.y2

\* bounds.getCenter()
GetCenter(b) == <<(b.x1 + b.x2) \div 2, (b.y1 + b.y2) \div 2>>

----------------------------------------------------------------------------
(* Grid *)

\* The fields Grid::resize sets from the bounds of the call.
mBounds == Area(bounds)
mCellSize == 2 ^ mK
mOffset == <<Abs(mBounds.x1), Abs(mBounds.y1)>>
mNumCells == <<CeilDiv(mBounds.x2 - mBounds.x1, mCellSize),
               CeilDiv(mBounds.y2 - mBounds.y1, mCellSize)>>
GetUL == <<mBounds.x1, mBounds.y1>>
GetLR == <<mBounds.x2, mBounds.y2>>

\* A mutant of Resize: mGrid.clear() left out, so cells keep what they held.
ResizeNoClear(grid) ==
    [j \in 0..(mNumCells[1] * mNumCells[2] - 1) |->
        IF j \in DOMAIN grid THEN grid[j] ELSE <<>>]

\* Grid::resize: mGrid.clear(); mGrid.resize( mNumCells.x * mNumCells.y ).
\* grid is what the vector held before.
Resize(grid) == [j \in 0..(mNumCells[1] * mNumCells[2] - 1) |-> <<>>]

\* The flat index Grid::add computes for position.  (The points drawn below
\* keep x + mNumCells.x * y within int.)
AddIndex(position) ==
    LET x == ShiftU32(CastU32(position[1]) + mOffset[1])
        y == ShiftU32(CastU32(position[2]) + mOffset[2])
    IN  x + mNumCells[1] * y

\* Grid::add: push_back into cell j when j < mGrid.size(), else only a log line.
Add(grid, position) ==
    LET j == AddIndex(position)
    IN  IF j < mNumCells[1] * mNumCells[2]
        THEN [grid EXCEPT ![j] = Append(@, position)]
        ELSE grid

\* for( unsigned c = lo; c < hi; c++ ): a negative lo is a huge unsigned.
UnsignedRange(lo, hi) == IF lo < 0 THEN {} ELSE lo..(hi - 1)

\* Grid::hasNeighbors
HasNeighbors(grid, p, radius) ==
    LET sqRadius == radius * radius
        radiusVec == Trunc(radius)
        lo(a) == Max(Min(Trunc(p[a]) - radiusVec, GetLR[a] - 1), GetUL[a])
        hi(a) == Max(Min(Trunc(p[a]) + radiusVec, GetLR[a] - 1), GetUL[a])
        minCell(a) == Shr(lo(a) + mOffset[a])
        maxCell(a) == Min(1 + Shr(hi(a) + mOffset[a]), mNumCells[a])
    IN  \E y \in UnsignedRange(minCell(2), maxCell(2)) :
          \E x \in UnsignedRange(minCell(1), maxCell(1)) :
            \E n \in 1..Len(grid[x + mNumCells[1] * y]) :
              Length2(p, grid[x + mNumCells[1] * y][n]) < sqRadius

----------------------------------------------------------------------------
(* The inputs of a call, drawn from small sets *)

\* The two builds differ only where a coordinate is negative.
Builds(b) == IF b.x1 < 0 \/ b.y1 < 0 THEN {"wrap", "sat"} ELSE {"wrap"}

\* bounds: 12 x 12 rectangles with the origin at (0,0), at negative and at
\* positive coordinates (corners in 1/Unit).
Rect(x, y, w, h) == [x1 |-> Unit * x, y1 |-> Unit * y, x2 |-> Unit * (x + w), y2 |-> Unit * (y + h)]
Domains == {Rect(0, 0, 12, 12), Rect(-8, -8, 12, 12), Rect(8, 8, 12, 12)}

\* Sample coordinates, relative to the upper-left corner: 0, 7.75 and 12.
RelCoords == {0, 31, 48}

\* The sample points inside b.
DomainPoints(b) == {<<b.x1 + dx, b.y1 + dy>> : dx \in RelCoords, dy \in RelCoords}

\* One sample point right of b, at relative (13, 0).
Outside(b) == <<b.x1 + 52, b.y1>>

\* The points a candidate can fall on.
Targets(b) == DomainPoints(b) \cup {Outside(b)}

\* The points an initialSet is made of: a point inside the bounds and a
\* point outside them.
InitialPoints(b) == {<<b.x1 + 31, b.y1>>, Outside(b)}

SeqsUpTo(S, n) == UNION {[1..m -> S] : m \in 0..n}

\* separation: 4 and 4.75
Separations == {16, 19}

\* distFunction: 4.75 over the left 8 units of the bounds, 4 right of them.
DistFunctions == {"step"}
DistFn(f, p) == IF p[1] - bounds.x1 < 8 * Unit THEN 19 ELSE 16

\* boundsFunction: admits the points less than 6 units below the upper edge
\* (the center of the bounds is not admitted).
BoundsFunctions == {"mask"}
BoundsFn(g, p) == p[2] - bounds.y1 < 6 * Unit

Policies ==
    {[variant |-> 1, separation |-> s, distFunction |-> "none", boundsFunction |-> "none"] :
        s \in Separations}
    \cup
    {[variant |-> 2, separation |-> 0, distFunction |-> f, boundsFunction |-> "none"] :
        f \in DistFunctions}
    \cup
    {[variant |-> 3, separation |-> 0, distFunction |-> f, boundsFunction |-> g] :
        f \in DistFunctions, g \in BoundsFunctions}

\* randRadius * ( cos, sin ) for randRadius in [dist, 2 dist) and any angle:
\* the vectors from c to a sample point in that annulus.
CandidateVectors(c, d) ==
    {<<t[1] - c[1], t[2] - c[2]>> : t \in
        {t \in Targets(bounds) : Length2(t, c) >= d * d /\ Length2(t, c) < 4 * d * d}}

----------------------------------------------------------------------------
(* poissonDiskDistribution *)

\* A mutant of PushBack: the point goes to the front of the vector.
PushFront(list, p) == <<p>> \o list

\* vector::push_back
PushBack(list, p) == Append(list, p)

\* A mutant of Erase: the last element goes (pop_back), whatever n is.
EraseLast(list, n) == SubSeq(list, 1, Len(list) - 1)

\* vector::erase( begin() + n ), n counted from 0
Erase(list, n) == SubSeq(list, 1, n) \o SubSeq(list, n + 2, Len(list))

\* The state at the top of the function: empty working lists, a fresh grid.
Entry ==
    /\ pc = "init"
    /\ nInit = 0
    /\ processingList = <<>>
    /\ outputList = <<>>
    /\ center = <<0, 0>>
    /\ dist = 0
    /\ i = 0
    /\ mGrid = Resize(<<>>)
    /\ acceptDist = <<>>
    /\ procIdx = <<>>
    /\ processed = <<>>

NoMock ==
    /\ run = 1
    /\ intStream = <<>>
    /\ floatStream = <<>>
    /\ intPos = 0
    /\ floatPos = 0
    /\ firstK = 0
    /\ firstOutput = <<>>
    /\ firstGrid = <<>>
    /\ iterDone = FALSE
    /\ iterOut = <<>>
    /\ firstIterOut = <<>>

NoQuery ==
    /\ added = <<>>
    /\ qAsked = FALSE
    /\ qPoint = <<0, 0>>
    /\ qRadius = 0
    /\ qResult = FALSE

Inputs ==
    /\ bounds \in Domains
    /\ build \in Builds(bounds)
    /\ \E pol \in Policies :
        /\ variant = pol.variant
        /\ separation = pol.separation
        /\ distFunction = pol.distFunction
        /\ boundsFunction = pol.boundsFunction
    /\ initialSet \in SeqsUpTo(InitialPoints(bounds), MaxInit)
    /\ k \in 0..MaxK

Init == Inputs /\ Entry /\ NoMock /\ NoQuery

\* processingList, outputList and the grid take p; dAt is the separation that
\* applied (history).
Accept(p, dAt) ==
    /\ Len(outputList) < MaxOut
    /\ processingList' = PushBack(processingList, p)
    /\ outputList' = PushBack(outputList, p)
    /\ mGrid' = Add(mGrid, p)
    /\ acceptDist' = Append(acceptDist, dAt)
    /\ procIdx' = Append(procIdx, Len(outputList) + 1)
    /\ processed' = Append(processed, 0)

\* One pass of: for( auto p : initialSet ) { ... }
InitialPoint ==
    /\ pc = "init"
    /\ nInit < Len(initialSet)
    /\ Accept(initialSet[nInit + 1], 0)
    /\ nInit' = nInit + 1
    /\ UNCHANGED <<inputVars, k, pc, center, dist, i, mockVars, queryVars>>

\* if( !processingList.size() ) { ... add bounds.getCenter() ... }
SeedCenter ==
    /\ pc = "init"
    /\ nInit = Len(initialSet)
    /\ IF Len(processingList) = 0
       THEN Accept(GetCenter(bounds), 0)
       ELSE UNCHANGED <<processingList, outputList, mGrid, histVars>>
    /\ pc' = "loop"
    /\ UNCHANGED <<inputVars, k, nInit, center, dist, i, mockVars, queryVars>>

\* The head of the while loop with randInt having returned randPoint: pick
\* the point, erase it, get its distance, enter the for loop.
SelectStep(randPoint) ==
    /\ pc = "loop"
    /\ Len(processingList) > 0
    /\ randPoint \in 0..(Len(processingList) - 1)
    /\ center' = processingList[randPoint + 1]
    /\ processingList' = Erase(processingList, randPoint)
    /\ dist' = IF variant = 1 THEN separation ELSE DistFn(distFunction, center')
    /\ i' = 0
    /\ pc' = IF 0 < k THEN "spawn" ELSE "loop"
    /\ procIdx' = SubSeq(procIdx, 1, randPoint) \o SubSeq(procIdx, randPoint + 2, Len(procIdx))
    /\ processed' = [processed EXCEPT ![procIdx[randPoint + 1]] = @ + 1]
    /\ UNCHANGED <<inputVars, k, nInit, outputList, mGrid, acceptDist, queryVars>>

\* The test of the candidate newPoint.
Accepted(newPoint) ==
    /\ Contains(bounds, newPoint)
    /\ (variant = 3 => BoundsFn(boundsFunction, newPoint))
    /\ ~HasNeighbors(mGrid, newPoint, dist)

\* One pass of the for loop with the two randFloat draws giving the vector v
\* from center to the candidate.
SpawnStep(v) ==
    /\ pc = "spawn"
    /\ i < k
    /\ LET newPoint == <<center[1] + v[1], center[2] + v[2]>>
       IN  IF Accepted(newPoint)
           THEN Accept(newPoint, dist)
           ELSE UNCHANGED <<processingList, outputList, mGrid, histVars>>
    /\ i' = i + 1
    /\ pc' = IF i + 1 < k THEN "spawn" ELSE "loop"
    /\ UNCHANGED <<inputVars, k, nInit, center, dist, queryVars>>

Select ==
    /\ \E randPoint \in 0..(Len(processingList) - 1) : SelectStep(randPoint)
    /\ UNCHANGED mockVars

Spawn ==
    /\ \E v \in CandidateVectors(center, dist) : SpawnStep(v)
    /\ UNCHANGED mockVars

\* while( processingList.size() ) fails: return outputList.
Return ==
    /\ pc = "loop"
    /\ Len(processingList) = 0
    /\ pc' = "done"
    /\ UNCHANGED <<inputVars, k, nInit, processingList, outputList, center, dist, i, mGrid,
                   histVars, mockVars, queryVars>>

Next == InitialPoint \/ SeedCenter \/ Select \/ Spawn \/ Return

Spec == Init /\ [][Next]_vars

----------------------------------------------------------------------------
(* Two calls in a row over a mocked random source.  The first call draws   *)
(* freely and the source records what it returned: intStream for randInt,  *)
(* floatStream for the pairs of randFloat draws, each pair kept as the     *)
(* vector it placed the candidate at.  The second call is fed the same     *)
(* values in the same order; past the end of the record it draws freely.   *)

\* randInt( 0, n - 1 ) of the mock for the recorded value raw.
MockInt(raw, n) == raw % n

\* The first pass of the while loop of this call has just ended.
EndOfIteration ==
    /\ iterDone' = TRUE
    /\ iterOut' = IF iterDone THEN iterOut ELSE outputList'

SelectMock ==
    /\ pc = "loop"
    /\ Len(processingList) > 0
    /\ IF intPos < Len(intStream)
       THEN /\ SelectStep(MockInt(intStream[intPos + 1], Len(processingList)))
            /\ intPos' = intPos + 1
            /\ UNCHANGED intStream
       ELSE \E randPoint \in 0..(Len(processingList) - 1) :
            /\ SelectStep(randPoint)
            /\ intStream' = IF run = 1 THEN Append(intStream, randPoint) ELSE intStream
            /\ intPos' = IF run = 1 THEN intPos + 1 ELSE intPos
    /\ IF 0 < k THEN UNCHANGED <<iterDone, iterOut>> ELSE EndOfIteration
    /\ UNCHANGED <<run, floatStream, floatPos, firstK, firstOutput, firstGrid, firstIterOut>>

SpawnMock ==
    /\ pc = "spawn"
    /\ IF floatPos < Len(floatStream)
       THEN /\ SpawnStep(floatStream[floatPos + 1])
            /\ floatPos' = floatPos + 1
            /\ UNCHANGED floatStream
       ELSE /\ run = 1 => Len(floatStream) < MaxDraws
            /\ \E v \in CandidateVectors(center, dist) :
                /\ SpawnStep(v)
                /\ floatStream' = IF run = 1 THEN Append(floatStream, v) ELSE floatStream
            /\ floatPos' = IF run = 1 THEN floatPos + 1 ELSE floatPos
    /\ IF i + 1 < k THEN UNCHANGED <<iterDone, iterOut>> ELSE EndOfIteration
    /\ UNCHANGED <<run, intStream, intPos, firstK, firstOutput, firstGrid, firstIterOut>>

\* The first call has returned; the function is called again with the same
\* arguments (or, under constant separation, with k raised by one), the mock
\* rewound.  The locals are constructed anew.
Rerun ==
    /\ pc = "done"
    /\ run = 1
    /\ run' = 2
    /\ firstK' = k
    /\ firstOutput' = outputList
    /\ firstGrid' = mGrid
    /\ firstIterOut' = iterOut
    /\ iterDone' = FALSE
    /\ iterOut' = <<>>
    /\ intPos' = 0
    /\ floatPos' = 0
    /\ k' \in (IF variant = 1 THEN k..Min(k + 1, MaxK) ELSE {k})
    /\ pc' = "init"
    /\ nInit' = 0
    /\ processingList' = <<>>
    /\ outputList' = <<>>
    /\ center' = <<0, 0>>
    /\ dist' = 0
    /\ i' = 0
    /\ mGrid' = Resize(mGrid)
    /\ acceptDist' = <<>>
    /\ procIdx' = <<>>
    /\ processed' = <<>>
    /\ UNCHANGED <<inputVars, intStream, floatStream, queryVars>>

NextPair == InitialPoint \/ SeedCenter \/ SelectMock \/ SpawnMock \/ Return \/ Rerun

SpecPair == Init /\ [][NextPair]_vars

----------------------------------------------------------------------------
(* A Grid used directly: any sequence of add calls with points inside the  *)
(* bounds, and hasNeighbors queries between them.                          *)

\* Query radii: 0.5, 4, 4.75 and 9 (below and above the cell size 8).
Radii == {2, 16, 19, 36}

GridPoints == DomainPoints(bounds) \cup {GetCenter(bounds)}

InitGrid ==
    /\ bounds \in Domains
    /\ build \in Builds(bounds)
    /\ variant = 1
    /\ separation = 0
    /\ distFunction = "none"
    /\ boundsFunction = "none"
    /\ initialSet = <<>>
    /\ k = 0
    /\ pc = "grid"
    /\ nInit = 0
    /\ processingList = <<>>
    /\ outputList = <<>>
    /\ center = <<0, 0>>
    /\ dist = 0
    /\ i = 0
    /\ mGrid = Resize(<<>>)
    /\ acceptDist = <<>>
    /\ procIdx = <<>>
    /\ processed = <<>>
    /\ NoMock
    /\ NoQuery

\* grid.add( p ) for a point p that bounds.contains
GridAdd ==
    /\ pc = "grid"
    /\ ~qAsked
    /\ Len(added) < MaxAdds
    /\ \E p \in GridPoints :
        /\ Contains(bounds, p)
        /\ mGrid' = Add(mGrid, p)
        /\ added' = Append(added, p)
    /\ UNCHANGED <<inputVars, k, pc, nInit, processingList, outputList, center, dist, i,
                   histVars, mockVars, qAsked, qPoint, qRadius, qResult>>

\* grid.hasNeighbors( p, radius ).  It changes nothing in the grid, so the
\* answers given after further adds are those of the states that add first:
\* a query ends the behaviour.
GridQuery ==
    /\ pc = "grid"
    /\ ~qAsked
    /\ \E p \in GridPoints, radius \in Radii :
        /\ qPoint' = p
        /\ qRadius' = radius
        /\ qResult' = HasNeighbors(mGrid, p, radius)
    /\ qAsked' = TRUE
    /\ UNCHANGED <<inputVars, k, localVars, histVars, mockVars, added>>

NextGrid == GridAdd \/ GridQuery

SpecGrid == InitGrid /\ [][NextGrid]_vars

----------------------------------------------------------------------------
(* Claims about one run (Spec) *)

Generated(n) == n \in 1..Len(outputList) /\ acceptDist[n] > 0

\* C1: any two distinct points of outputList are at least as far apart as the
\* separation that applied when the later of the two was accepted.
C1_MinimumSeparation ==
    \A a, b \in 1..Len(outputList) :
        (a < b /\ Generated(b)) =>
            Length2(outputList[a], outputList[b]) >= acceptDist[b] * acceptDist[b]

\* C2: every point of outputList lies within bounds and, in the variant with
\* boundsFunction, satisfies boundsFunction.
C2_Containment ==
    \A n \in 1..Len(outputList) :
        /\ Contains(bounds, outputList[n])
        /\ (variant = 3 => BoundsFn(boundsFunction, outputList[n]))

IsPrefix(s, t) == Len(s) <= Len(t) /\ SubSeq(t, 1, Len(s)) = s

C4_AcceptedBoundedByDomain ==
    \A a, b \in 1..Len(outputList) :
        (a < b /\ Generated(b)) => outputList[a] # outputList[b]

\* C7: with boundsFunction, an empty initialSet and a center that
\* boundsFunction rejects, the run returns an empty outputList.
C7_RejectedCenterGivesEmptyOutput ==
    (/\ pc = "done"
     /\ variant = 3
     /\ initialSet = <<>>
     /\ ~BoundsFn(boundsFunction, GetCenter(bounds)))
        => outputList = <<>>

Occurrences(s, e) == Cardinality({n \in 1..Len(s) : s[n] = e})

\* C10: every point is pushed to processingList when it is pushed to
\* outputList, the entry selected is the entry erased, no point is selected
\* twice or pushed again, and at return every point of outputList has been
\* selected exactly once and processingList is empty.
C10_ProcessedExactlyOnce ==
    /\ Len(processed) = Len(outputList)
    /\ Len(procIdx) = Len(processingList)
    /\ \A n \in 1..Len(processingList) : processingList[n] = outputList[procIdx[n]]
    /\ \A m \in 1..Len(outputList) : processed[m] + Occurrences(procIdx, m) = 1
    /\ pc = "done" =>
        /\ processingList = <<>>
        /\ \A m \in 1..Len(outputList) : processed[m] = 1

C10_Witness ==
    /\ pc = "done"
    /\ Len(outputList) = 3
    /\ outputList[2] # outputList[3]
    /\ \A m \in 1..3 : processed[m] = 1

----------------------------------------------------------------------------
(* Claims about the Grid (SpecGrid) *)

\* C8: hasNeighbors( p, radius ) is true exactly when some added point is at
\* squared distance less than radius^2 from p.
C8_NeighborQueryComplete ==
    qAsked =>
        (qResult <=> \E n \in 1..Len(added) : Length2(qPoint, added[n]) < qRadius * qRadius)

\* The cell coordinate along axis a of the cell whose range contains
\* floor( p + offset ).
CellOf(p, a) == ((p[a] + Unit * mOffset[a]) \div Unit) \div mCellSize

\* C9: every added point has cell coordinates inside [0, numCells) on both
\* axes and is stored in that cell and in no other.
C9_GridPlacement ==
    \A n \in 1..Len(added) :
        LET p == added[n]
            home == CellOf(p, 1) + mNumCells[1] * CellOf(p, 2)
        IN  /\ CellOf(p, 1) \in 0..(mNumCells[1] - 1)
            /\ CellOf(p, 2) \in 0..(mNumCells[2] - 1)
            /\ \A j \in DOMAIN mGrid :
                Occurrences(mGrid[j], p) = IF j = home THEN Occurrences(added, p) ELSE 0

----------------------------------------------------------------------------
(* Claims about two calls over the same random values (SpecPair) *)

====
